---- MODULE Spec2Model ----
(***************************************************************************)
(* PersonFinAdvisor web client: the session (AuthContext), the dashboard   *)
(* aggregate fetch and the totals StatsCards shows from it, the advisory   *)
(* reads (FinancialAdvisor, MotivationalWidget) and the create flows       *)
(* (CreateBudget, CreateGoal), as a state machine.  One action per handler; an async handler is split  *)
(* at its await into the part that issues the request and the part that    *)
(* runs when the response or the error arrives.                            *)
(*                                                                         *)
(* Dashboard renders its children only once it has data, and only the      *)
(* children of the active tab; a child that is not rendered is unmounted,  *)
(* its state is gone, and a response that arrives for it later cannot      *)
(* change the state of the instance mounted afterwards (live = FALSE).     *)
(***************************************************************************)
EXTENDS Integers, Sequences, FiniteSets, TLC

\* ---------------------------------------------------------------- bounds
MaxCalls == 4        \* requests issued in one run
MaxQLen == 1         \* longest question text typed into the ask form

\* ------------------------------------------------------------ credentials
Tokens == {"t1", "t2"}
PersistedTokens == {"t1"}   \* what an earlier run may have left in localStorage
NoToken == "null"
Null == [null |-> TRUE]
NoHeader == <<>>

Truthy(v) == v # NoToken /\ v # ""

Bearer(tok) == <<"Bearer", tok>>

\* ---------------------------------------------------------- axios errors
\* e401/e422/e400/e500: the server answered with that status; enetwork: no
\* response; etimeout: the per-call timeout elapsed (axios ECONNABORTED, no
\* response); esetup: the request could not be set up or the handler threw.
Errors == {"e401", "e422", "enetwork", "etimeout", "esetup"}

\* The create calls are also answered 400 and 500.
CreateErrors == Errors \cup {"e400", "e500"}

\* Other bodies a rejection may carry: two entries for one field, entries
\* whose path does not reach a field, and a 401 whose body holds a list.
RejectionErrors == CreateErrors \cup {"e422twice", "e422shallow", "e401list"}

HasResponse(e) ==
  e \in {"e401", "e401list", "e422", "e422twice", "e422shallow", "e400", "e500"}

HasRequest(e) == e \in {"enetwork", "etimeout"}

Status(e) == CASE e \in {"e401", "e401list"} -> 401
               [] e \in {"e422", "e422twice", "e422shallow"} -> 422
               [] e = "e400" -> 400
               [] e = "e500" -> 500
               [] OTHER -> 0

\* What the server's error body holds under 'detail': FastAPI sends a list of
\* {loc, msg} for a 422, a string with an HTTPException, nothing otherwise.
NoDetail == [isArray |-> FALSE, none |-> TRUE]

Detail(e) ==
  CASE e = "e422" ->
         [isArray |-> TRUE,
          items |-> <<[loc |-> <<"body", "amount">>, msg |-> "value is not a valid float"],
                      [loc |-> <<"body">>, msg |-> "field required"]>>]
    [] e = "e422twice" ->
         [isArray |-> TRUE,
          items |-> <<[loc |-> <<"body", "amount">>, msg |-> "value is not a valid float"],
                      [loc |-> <<"body", "amount">>, msg |-> "ensure this value is greater than 0"],
                      [loc |-> <<"body", "category">>, msg |-> "field required"]>>]
    [] e = "e422shallow" ->
         [isArray |-> TRUE,
          items |-> <<[loc |-> <<"body">>, msg |-> "field required"],
                      [loc |-> <<>>, msg |-> "invalid request"]>>]
    [] e = "e400" -> [isArray |-> FALSE, text |-> "Already exists"]
    [] e = "e401" -> [isArray |-> FALSE, text |-> "Could not validate credentials"]
    [] e = "e401list" ->
         [isArray |-> TRUE,
          items |-> <<[loc |-> <<"header", "authorization">>, msg |-> "field required"]>>]
    [] OTHER -> NoDetail

\* ------------------------------------------------------- fallback payloads
HealthFallback ==
  [score |-> 70, health_status |-> "Good", issues |-> <<>>,
   recommendations |-> <<"Continue tracking your expenses",
                         "Aim for 20% savings rate",
                         "Build 3-6 months emergency fund">>]

OptimizationFallback ==
  [spending_optimization |->
     <<"Review top spending categories and identify areas to cut back",
       "Consider meal planning to reduce food expenses",
       "Cancel unused subscriptions">>,
   savings_opportunities |->
     <<"Automate savings transfers", "Consider high-yield savings accounts">>,
   priority_actions |->
     <<"Set up automatic savings",
       "Review and cancel unnecessary subscriptions">>]

AdviceFallback(q) ==
  [answer |-> [text |-> "I apologize, but I'm experiencing technical difficulties right now. Your question was: \"${question}\". Please try asking again in a moment.",
              question |-> q],
   recommendations |-> <<"Try asking your question again",
                         "Check your financial dashboard for insights",
                         "Review your budget and goals">>,
   next_steps |-> <<"Retry your question",
                    "Explore the dashboard for more information">>]

MotivationFallback ==
  [quote |-> "The best time to plant a tree was 20 years ago. The second best time is now.",
   tip |-> "Automate your savings by setting up automatic transfers to a savings account each month."]

MotivationNoToken ==
  [quote |-> "Financial freedom is a journey, not a destination.",
   tip |-> "Start by logging in to get personalized financial motivation."]

\* The value of a JSON field as JavaScript holds it: a number, a text, or
\* nothing (absent or null).  NaN is the number no text stands for.
Num(n) == [type |-> "number", n |-> n, s |-> ""]

Str(s) == [type |-> "string", n |-> 0, s |-> s]

Undefined == [type |-> "undefined", n |-> 0, s |-> ""]

NaN == [type |-> "number", n |-> 0, s |-> "NaN"]

EmptyDashboard ==
  [budgets |-> <<>>, goals |-> <<>>, recent_transactions |-> <<>>,
   total_balance |-> Num(0), total_income |-> Num(0), total_expenses |-> Num(0),
   net_income |-> Num(0), unread_alerts |-> 0]

\* ------------------------------------------------- what the server may send
\* The server is free to answer with the very values the client falls back to.
HealthPayloads ==
  {[score |-> 85, health_status |-> "Excellent", issues |-> <<>>,
    recommendations |-> <<"Keep it up">>],
   [score |-> 70, health_status |-> "Good", issues |-> <<>>,
    recommendations |-> <<"Continue tracking your expenses",
                          "Aim for 20% savings rate",
                          "Build 3-6 months emergency fund">>]}

OptimizationPayloads ==
  {[spending_optimization |-> <<"Cook at home">>,
    savings_opportunities |-> <<>>, priority_actions |-> <<>>]}

AdvicePayloads ==
  {[answer |-> [text |-> "Save more", question |-> <<>>], recommendations |-> <<>>, next_steps |-> <<>>]}

MotivationPayloads ==
  {[quote |-> "Q", tip |-> "T"], [quote |-> "", tip |-> ""]}

DashboardPayloads ==
  {[budgets |-> <<"b1">>, goals |-> <<"g1">>, recent_transactions |-> <<"x1">>,
    total_balance |-> Num(100), total_income |-> Num(50), total_expenses |-> Num(20),
    net_income |-> Num(30), unread_alerts |-> 1]}

\* What a total may arrive as: a number, zero, a numeric text, a text that is
\* no number, the empty text, or nothing.
SnapshotPayloads ==
  LET Received == {Num(50), Num(0), Str("10"), Str("abc"), Str(""), Undefined}
  IN [budgets : {<<"b1">>}, goals : {<<"g1">>}, recent_transactions : {<<"x1">>},
      total_balance : Received, total_income : Received, total_expenses : Received,
      net_income : Received, unread_alerts : {1}]

\* ------------------------------------------------------------- questions
QChars == {" ", "a"}

RECURSIVE SeqsUpTo(_, _)
SeqsUpTo(S, n) ==
  IF n = 0 THEN {<<>>}
  ELSE LET shorter == SeqsUpTo(S, n - 1)
       IN shorter \cup {Append(s, c) : s \in shorter, c \in S}

Questions == SeqsUpTo(QChars, MaxQLen)

RECURSIVE TrimStart(_)
TrimStart(s) ==
  IF s # <<>> /\ Head(s) = " " THEN TrimStart(Tail(s)) ELSE s

RECURSIVE TrimEnd(_)
TrimEnd(s) ==
  IF s # <<>> /\ s[Len(s)] = " " THEN TrimEnd(SubSeq(s, 1, Len(s) - 1)) ELSE s

Trim(s) == TrimEnd(TrimStart(s))

\* ------------------------------------------------------------- form texts
\* Text fields are sequences of characters; dates are day names, amounts the
\* texts "", "abc", "-5", "0" and "10".
Today == "d1"

Day(d) == CASE d = "d1" -> 1
            [] d = "d2" -> 2
            [] OTHER -> 0

\* new Date(d): midnight UTC of day d, in half days.
DateOf(d) == 2 * Day(d)

\* new Date(): the moment of the call, midnight of today exactly or later that day.
Nows == {DateOf(Today), DateOf(Today) + 1}

\* parseFloat on the amounts above
IsNaN(s) == s \in {"", "abc"}

ParseFloat(s) == CASE s = "-5" -> -5
                   [] s = "0" -> 0
                   [] s = "10" -> 10
                   [] OTHER -> 0

\* new Date(d + 'T00:00:00Z').toISOString(), new Date(d + 'T23:59:59Z').toISOString()
StartOfDay(d) == <<d, "T00:00:00.000Z">>

EndOfDay(d) == <<d, "T23:59:59.000Z">>

\* ------------------------------------------------------------------ state
VARIABLES
  storedToken,          \* localStorage 'token'
  token,                \* AuthProvider state
  isAuthenticated,      \* AuthProvider state
  authLoading,          \* AuthProvider state 'loading'
  defaultAuth,          \* axios.defaults.headers.common['Authorization']
  dashMounted,          \* a Dashboard instance exists and its mount effect ran
  dashboardData, dashLoading, activeTab, showCreateBudget, showCreateGoal,
  advisorMounted,       \* FinancialAdvisor's mount effect ran
  healthScore, optimization, question, advice,
  loadingAsk, loadingHealth, loadingOptimization,
  widgetMounted,        \* MotivationalWidget's mount effect ran
  quote, tip, loadingMotivation,
  budgetForm, budgetErrors, budgetLoading,      \* CreateBudget state
  goalForm, goalErrors, goalLoading,            \* CreateGoal state
  inflight,             \* requests awaiting their response
  calls,                \* how many requests were issued, counted against MaxCalls
  toast,                \* the toast the last step showed, <<>> if none
  unhandled,            \* operations whose handler rejected to its caller
  success               \* what login() or register() last returned to
                        \* handleSubmit, "none" before

sessionVars == <<storedToken, token, isAuthenticated, authLoading, defaultAuth>>

dashVars == <<dashMounted, dashboardData, dashLoading, activeTab,
              showCreateBudget, showCreateGoal>>

advisorVars == <<advisorMounted, healthScore, optimization, question, advice,
                 loadingAsk, loadingHealth, loadingOptimization>>

widgetVars == <<widgetMounted, quote, tip, loadingMotivation>>

budgetVars == <<budgetForm, budgetErrors, budgetLoading>>

goalVars == <<goalForm, goalErrors, goalLoading>>

netVars == <<inflight, calls>>

vars == <<sessionVars, dashVars, advisorVars, widgetVars, budgetVars, goalVars,
          netVars, toast, unhandled, success>>

Ops == {"login", "register", "dashboard", "health", "optimization", "advice", "motivation",
        "budget", "goal"}

AuthenticatedOps == Ops \ {"login", "register"}

AdvisorOps == {"health", "optimization", "advice"}

WidgetOps == {"motivation"}

TabOps == AdvisorOps \cup WidgetOps \cup {"budget", "goal"}

NoBody == [none |-> TRUE]

\* A request: id is its number among the calls issued; auth is the Authorization
\* header sent; body is what the handler keeps of its input; live: the
\* component instance that issued it is still mounted; newest: no call of the
\* same operation was issued after it.
Req(id, op, auth, body) ==
  [id |-> id, op |-> op, auth |-> auth, body |-> body, live |-> TRUE, newest |-> TRUE]

Room(n, k) == n + k <= MaxCalls

\* reqs with the requests `new` added to it.
Sent(reqs, new) ==
  {IF \E n \in new : n.op = r.op THEN [r EXCEPT !.newest = FALSE] ELSE r : r \in reqs}
    \cup new

\* The requests of unmounted components: their handlers still run, on an
\* instance that is gone.
Orphan(reqs, ops) ==
  {IF r.op \in ops THEN [r EXCEPT !.live = FALSE] ELSE r : r \in reqs}

\* The three things a step does to the requests.
Send(new) == inflight' = Sent(inflight, new) /\ calls' = calls + Cardinality(new)

Receive(r) == inflight' = inflight \ {r} /\ UNCHANGED calls

Unmount(ops) == inflight' = Orphan(inflight, ops) /\ UNCHANGED calls

\* --------------------------------------------------- component initial state
BudgetDefaults ==
  [category |-> <<>>, amount |-> "", period |-> "monthly",
   start_date |-> Today, end_date |-> "d2"]

GoalDefaults ==
  [name |-> <<>>, target_amount |-> "", target_date |-> "d2", goal_type |-> "savings"]

NoErrors == <<>>

AdvisorInit ==
  /\ advisorMounted = FALSE
  /\ healthScore = Null /\ optimization = Null /\ question = <<>> /\ advice = Null
  /\ loadingAsk = FALSE /\ loadingHealth = FALSE /\ loadingOptimization = FALSE

WidgetInit ==
  /\ widgetMounted = FALSE
  /\ quote = "" /\ tip = "" /\ loadingMotivation = TRUE

BudgetInit ==
  budgetForm = BudgetDefaults /\ budgetErrors = NoErrors /\ budgetLoading = FALSE

GoalInit ==
  goalForm = GoalDefaults /\ goalErrors = NoErrors /\ goalLoading = FALSE

DashboardInit ==
  /\ dashMounted = FALSE
  /\ dashboardData = Null /\ dashLoading = TRUE /\ activeTab = "overview"
  /\ showCreateBudget = FALSE /\ showCreateGoal = FALSE

\* The same values, given to a component that is unmounted or reloaded.
AdvisorReset ==
  /\ advisorMounted' = FALSE
  /\ healthScore' = Null /\ optimization' = Null /\ question' = <<>> /\ advice' = Null
  /\ loadingAsk' = FALSE /\ loadingHealth' = FALSE /\ loadingOptimization' = FALSE

WidgetReset ==
  /\ widgetMounted' = FALSE
  /\ quote' = "" /\ tip' = "" /\ loadingMotivation' = TRUE

BudgetReset ==
  budgetForm' = BudgetDefaults /\ budgetErrors' = NoErrors /\ budgetLoading' = FALSE

GoalReset ==
  goalForm' = GoalDefaults /\ goalErrors' = NoErrors /\ goalLoading' = FALSE

DashboardReset ==
  /\ dashMounted' = FALSE
  /\ dashboardData' = Null /\ dashLoading' = TRUE /\ activeTab' = "overview"
  /\ showCreateBudget' = FALSE /\ showCreateGoal' = FALSE

Init ==
  /\ storedToken \in PersistedTokens \cup {NoToken}
  /\ token = storedToken
  /\ isAuthenticated = FALSE
  /\ authLoading = TRUE
  /\ defaultAuth = NoHeader
  /\ DashboardInit /\ AdvisorInit /\ WidgetInit /\ BudgetInit /\ GoalInit
  /\ inflight = {} /\ calls = 0
  /\ toast = <<>>
  /\ unhandled = {}
  /\ success = "none"

\* ---------------------------------------------------------------- session
\* The effect on [token]: with a token, set the default header and the flag.
EffectAuth(tok, flag) == IF Truthy(tok) THEN TRUE ELSE flag

EffectHeader(tok, hdr) == IF Truthy(tok) THEN Bearer(tok) ELSE hdr

AuthEffect ==
  /\ authLoading
  /\ isAuthenticated' = EffectAuth(token, isAuthenticated)
  /\ defaultAuth' = EffectHeader(token, defaultAuth)
  /\ authLoading' = FALSE
  /\ toast' = <<>>
  /\ UNCHANGED <<storedToken, token, dashVars, advisorVars, widgetVars, budgetVars,
                 goalVars, netVars, unhandled, success>>

\* Login.handleSubmit -> login(): the page is left once isAuthenticated.
LoginSubmit ==
  /\ ~authLoading /\ ~isAuthenticated
  /\ Room(calls, 1)
  /\ Send({Req(calls + 1, "login", defaultAuth, NoBody)})
  /\ toast' = <<>>
  /\ UNCHANGED <<sessionVars, dashVars, advisorVars, widgetVars, budgetVars,
                 goalVars, unhandled, success>>

LoginOk(r, tok) ==
  /\ r \in inflight /\ r.op = "login"
  /\ Receive(r)
  /\ storedToken' = tok
  /\ token' = tok
  /\ defaultAuth' = EffectHeader(tok, Bearer(tok))
  /\ isAuthenticated' = EffectAuth(tok, TRUE)
  /\ toast' = <<"Login successful!">>
  /\ success' = "true"
  /\ UNCHANGED <<authLoading, dashVars, advisorVars, widgetVars, budgetVars,
                 goalVars, unhandled>>

ConnectToast == "Unable to connect to server. Please check if the backend is running."

\* error.response.data.detail || `Login failed: ${status}`; a detail that is a
\* list is shown as the messages it holds.
LoginErrorToast(e) ==
  IF HasResponse(e)
  THEN IF Detail(e) = NoDetail THEN <<"Login failed: ", ToString(Status(e))>>
       ELSE IF Detail(e).isArray
       THEN [i \in 1..Len(Detail(e).items) |-> Detail(e).items[i].msg]
       ELSE <<Detail(e).text>>
  ELSE IF HasRequest(e) THEN <<ConnectToast>>
  ELSE <<"Login failed: ", e>>

\* A catch block that signs the user out.
LoginFailSignsOut(r, e) ==
  /\ r \in inflight /\ r.op = "login"
  /\ Receive(r)
  /\ storedToken' = NoToken /\ token' = NoToken
  /\ isAuthenticated' = FALSE /\ defaultAuth' = NoHeader
  /\ toast' = LoginErrorToast(e)
  /\ success' = "false"
  /\ UNCHANGED <<authLoading, dashVars, advisorVars, widgetVars, budgetVars,
                 goalVars, unhandled>>

LoginFail(r, e) ==
  /\ r \in inflight /\ r.op = "login"
  /\ Receive(r)
  /\ toast' = LoginErrorToast(e)
  /\ success' = "false"
  /\ UNCHANGED <<sessionVars, dashVars, advisorVars, widgetVars, budgetVars,
                 goalVars, unhandled>>

\* Register.handleSubmit -> register(): the page is left once isAuthenticated.
RegisterSubmit ==
  /\ ~authLoading /\ ~isAuthenticated
  /\ Room(calls, 1)
  /\ Send({Req(calls + 1, "register", defaultAuth, NoBody)})
  /\ toast' = <<>>
  /\ UNCHANGED <<sessionVars, dashVars, advisorVars, widgetVars, budgetVars,
                 goalVars, unhandled, success>>

\* A register() that signs the new user in.
RegisterOkSignsIn(r) ==
  /\ r \in inflight /\ r.op = "register"
  /\ Receive(r)
  /\ storedToken' = "t2" /\ token' = "t2"
  /\ isAuthenticated' = TRUE /\ defaultAuth' = Bearer("t2")
  /\ toast' = <<"Registration successful! Please login.">>
  /\ success' = "true"
  /\ UNCHANGED <<authLoading, dashVars, advisorVars, widgetVars, budgetVars,
                 goalVars, unhandled>>

RegisterOk(r) ==
  /\ r \in inflight /\ r.op = "register"
  /\ Receive(r)
  /\ toast' = <<"Registration successful! Please login.">>
  /\ success' = "true"
  /\ UNCHANGED <<sessionVars, dashVars, advisorVars, widgetVars, budgetVars,
                 goalVars, unhandled>>

\* error.response?.data?.detail || 'Registration failed'
RegisterFail(r, e) ==
  /\ r \in inflight /\ r.op = "register"
  /\ Receive(r)
  /\ toast' = IF HasResponse(e) /\ Detail(e) # NoDetail
              THEN IF Detail(e).isArray
                   THEN [i \in 1..Len(Detail(e).items) |-> Detail(e).items[i].msg]
                   ELSE <<Detail(e).text>>
              ELSE <<"Registration failed">>
  /\ success' = "false"
  /\ UNCHANGED <<sessionVars, dashVars, advisorVars, widgetVars, budgetVars,
                 goalVars, unhandled>>

\* logout() that forgets localStorage.removeItem('token').
LogoutStoredKept(stored) == stored

\* logout(): what it leaves in localStorage, in the state and in the header.
LogoutStored(stored) == NoToken

LogoutToken(tok) == NoToken

\* logout() that forgets setIsAuthenticated(false).
LogoutFlagKept(flag) == flag

LogoutFlag(flag) == FALSE

\* logout() that forgets to delete the default header.
LogoutHeaderKept(hdr) == hdr

LogoutHeader(hdr) == NoHeader

LogoutSession ==
  /\ storedToken' = LogoutStored(storedToken)
  /\ token' = LogoutToken(token)
  /\ isAuthenticated' = EffectAuth(LogoutToken(token), LogoutFlag(isAuthenticated))
  /\ defaultAuth' = EffectHeader(LogoutToken(token), LogoutHeader(defaultAuth))
  /\ toast' = <<"Logged out successfully">>
  /\ UNCHANGED authLoading

DashVisible == dashMounted /\ ~dashLoading /\ dashboardData # Null

\* Dashboard.handleLogout: the button is in the header of the loaded dashboard.
Logout ==
  /\ DashVisible
  /\ LogoutSession
  /\ UNCHANGED <<dashVars, advisorVars, widgetVars, budgetVars, goalVars, netVars, unhandled, success>>

\* -------------------------------------------------------------- dashboard
Tabs == {"overview", "budgets", "goals", "advisor"}

\* fetchDashboardData up to its await: the request it sends, if any.
DashboardRequest(stored, id) ==
  IF Truthy(stored) THEN {Req(id, "dashboard", Bearer(stored), NoBody)} ELSE {}

\* The route /dashboard renders Dashboard; its mount effect fetches.
MountDashboard ==
  /\ ~authLoading /\ ~dashMounted
  /\ Room(calls, 1)
  /\ dashMounted' = TRUE
  /\ LET d == DashboardRequest(storedToken, calls + 1)
     IN /\ Send(d)
        /\ dashLoading' = IF d # {} THEN dashLoading ELSE FALSE
  /\ toast' = <<>>
  /\ UNCHANGED <<sessionVars, dashboardData, activeTab, showCreateBudget,
                 showCreateGoal, advisorVars, widgetVars, budgetVars, goalVars, unhandled, success>>

\* response.data that is null makes line 105 throw inside the try.
DashboardOnData(data) == IF data = Null THEN EmptyDashboard ELSE data

FetchDashboardOk(r, data) ==
  /\ r \in inflight /\ r.op = "dashboard"
  /\ Receive(r)
  /\ dashboardData' = DashboardOnData(data)
  /\ dashLoading' = FALSE
  /\ toast' = <<>>
  /\ UNCHANGED <<sessionVars, dashMounted, activeTab, showCreateBudget,
                 showCreateGoal, advisorVars, widgetVars, budgetVars, goalVars,
                 unhandled, success>>

\* A catch block without the 401 branch.
DashboardIs401Never(e) == FALSE

DashboardIs401(e) == HasResponse(e) /\ Status(e) = 401

\* A catch block that leaves the data as it was when there was no response.
DashboardOnErrorAbsent(e) == IF HasRequest(e) THEN Null ELSE EmptyDashboard

DashboardOnError(e) == EmptyDashboard

\* On a 401: localStorage.removeItem('token'); logout().
FetchDashboardFail(r, e) ==
  /\ r \in inflight /\ r.op = "dashboard"
  /\ Receive(r)
  /\ IF DashboardIs401(e)
     THEN LogoutSession
     ELSE UNCHANGED sessionVars /\ toast' = <<>>
  /\ dashLoading' = FALSE
  /\ dashboardData' = DashboardOnError(e)
  /\ UNCHANGED <<dashMounted, activeTab, showCreateBudget, showCreateGoal,
                 advisorVars, widgetVars, budgetVars, goalVars, unhandled, success>>

\* The tab buttons: the children of the tab that is left are unmounted.
SetActiveTab(t) ==
  /\ DashVisible /\ t # activeTab
  /\ activeTab' = t
  /\ AdvisorReset /\ WidgetReset /\ BudgetReset /\ GoalReset
  /\ Unmount(TabOps)
  /\ toast' = <<>>
  /\ UNCHANGED <<sessionVars, dashMounted, dashboardData, dashLoading,
                 showCreateBudget, showCreateGoal, unhandled, success>>

\* ---------------------------------------------------------- FinancialAdvisor
AdvisorShown == DashVisible /\ activeTab = "advisor"

HealthRequest(stored, id) ==
  IF Truthy(stored) THEN {Req(id, "health", Bearer(stored), NoBody)} ELSE {}

OptimizationRequest(stored, id) ==
  IF Truthy(stored) THEN {Req(id, "optimization", Bearer(stored), NoBody)} ELSE {}

AdviceRequest(stored, id, q) ==
  IF Truthy(stored) THEN {Req(id, "advice", Bearer(stored), q)} ELSE {}

\* The mount effect: fetchFinancialHealth(); fetchOptimization().
MountAdvisor ==
  /\ AdvisorShown /\ ~advisorMounted
  /\ Room(calls, 2)
  /\ advisorMounted' = TRUE
  /\ LET h == HealthRequest(storedToken, calls + 1)
         o == OptimizationRequest(storedToken, calls + 1 + Cardinality(h))
     IN /\ Send(h \cup o)
        /\ loadingHealth' = (h # {})
        /\ loadingOptimization' = (o # {})
        /\ toast' = IF o = {} THEN <<"Please log in to view optimization recommendations">>
                    ELSE IF h = {} THEN <<"Please log in to view financial health score">>
                    ELSE <<>>
  /\ UNCHANGED <<sessionVars, dashVars, healthScore, optimization, question,
                 advice, loadingAsk, widgetVars, budgetVars, goalVars,
                 unhandled, success>>

\* A catch block that stores nothing when the server answered 401.
HealthOnErrorExcept401(e) == IF e = "e401" THEN Null ELSE HealthFallback

HealthOnError(e) == HealthFallback

HealthErrorToast(e) ==
  IF HasResponse(e)
  THEN <<"Failed to fetch financial health score: ", ToString(Status(e))>>
  ELSE IF HasRequest(e) THEN <<ConnectToast>>
  ELSE <<"Failed to fetch financial health score: ", e>>

FetchHealthOk(r, data) ==
  /\ r \in inflight /\ r.op = "health"
  /\ Receive(r)
  /\ IF r.live
     THEN /\ healthScore' = data
          /\ loadingHealth' = FALSE
     ELSE UNCHANGED <<healthScore, loadingHealth>>
  /\ toast' = <<>>
  /\ UNCHANGED <<sessionVars, dashVars, advisorMounted, optimization, question,
                 advice, loadingAsk, loadingOptimization, widgetVars, budgetVars,
                 goalVars, unhandled, success>>

\* A finally block that also calls setLoadingOptimization(false).
FetchHealthFailShared(r, e) ==
  /\ r \in inflight /\ r.op = "health"
  /\ Receive(r)
  /\ IF r.live
     THEN /\ healthScore' = HealthOnError(e)
          /\ loadingHealth' = FALSE
          /\ loadingOptimization' = FALSE
     ELSE UNCHANGED <<healthScore, loadingHealth, loadingOptimization>>
  /\ toast' = HealthErrorToast(e)
  /\ UNCHANGED <<sessionVars, dashVars, advisorMounted, optimization, question,
                 advice, loadingAsk, widgetVars, budgetVars, goalVars, unhandled, success>>

FetchHealthFail(r, e) ==
  /\ r \in inflight /\ r.op = "health"
  /\ Receive(r)
  /\ IF r.live
     THEN /\ healthScore' = HealthOnError(e)
          /\ loadingHealth' = FALSE
     ELSE UNCHANGED <<healthScore, loadingHealth>>
  /\ toast' = HealthErrorToast(e)
  /\ UNCHANGED <<sessionVars, dashVars, advisorMounted, optimization, question,
                 advice, loadingAsk, loadingOptimization, widgetVars, budgetVars,
                 goalVars, unhandled, success>>

OptimizationOnError(e) == OptimizationFallback

OptimizationErrorToast(e) ==
  IF HasResponse(e)
  THEN <<"Failed to fetch optimization recommendations: ", ToString(Status(e))>>
  ELSE IF HasRequest(e) THEN <<ConnectToast>>
  ELSE <<"Failed to fetch optimization recommendations: ", e>>

FetchOptimizationOk(r, data) ==
  /\ r \in inflight /\ r.op = "optimization"
  /\ Receive(r)
  /\ IF r.live
     THEN /\ optimization' = data
          /\ loadingOptimization' = FALSE
     ELSE UNCHANGED <<optimization, loadingOptimization>>
  /\ toast' = <<>>
  /\ UNCHANGED <<sessionVars, dashVars, advisorMounted, healthScore, question,
                 advice, loadingAsk, loadingHealth, widgetVars, budgetVars,
                 goalVars, unhandled, success>>

FetchOptimizationFail(r, e) ==
  /\ r \in inflight /\ r.op = "optimization"
  /\ Receive(r)
  /\ IF r.live
     THEN /\ optimization' = OptimizationOnError(e)
          /\ loadingOptimization' = FALSE
     ELSE UNCHANGED <<optimization, loadingOptimization>>
  /\ toast' = OptimizationErrorToast(e)
  /\ UNCHANGED <<sessionVars, dashVars, advisorMounted, healthScore, question,
                 advice, loadingAsk, loadingHealth, widgetVars, budgetVars,
                 goalVars, unhandled, success>>

\* The question input's onChange.
SetQuestion(q) ==
  /\ AdvisorShown /\ advisorMounted /\ q # question
  /\ question' = q
  /\ toast' = <<>>
  /\ UNCHANGED <<sessionVars, dashVars, advisorMounted, healthScore, optimization,
                 advice, loadingAsk, loadingHealth, loadingOptimization,
                 widgetVars, budgetVars, goalVars, netVars, unhandled, success>>

\* The Ask button is disabled while loading or while the trimmed question is
\* empty; a form whose submit button is disabled is not submitted.
AskEnabled(loading, q) == ~loading /\ Trim(q) # <<>>

\* A guard that tests the text as it is: if (!question) return.
IsBlankUntrimmed(q) == q = <<>>

\* !question.trim()
IsBlank(q) == Trim(q) = <<>>

\* handleAskQuestion up to its await.
AskQuestion ==
  /\ AdvisorShown /\ advisorMounted
  /\ IF IsBlank(question)
     THEN /\ toast' = <<>>
          /\ UNCHANGED <<loadingAsk, netVars>>
     ELSE LET a == AdviceRequest(storedToken, calls + 1, question)
          IN /\ Room(calls, 1)
             /\ Send(a)
             /\ loadingAsk' = (a # {})
             /\ toast' = IF a # {} THEN <<>> ELSE <<"Please log in to ask questions">>
  /\ UNCHANGED <<sessionVars, dashVars, advisorMounted, healthScore, optimization,
                 question, advice, loadingHealth, loadingOptimization,
                 widgetVars, budgetVars, goalVars, unhandled, success>>

\* A click on Ask, or Enter in the question field.
HandleAskQuestion == AskEnabled(loadingAsk, question) /\ AskQuestion

\* The form's submit event raised while the button is disabled
\* (form.requestSubmit(), a test driving the handler).
SubmitAskForm == ~AskEnabled(loadingAsk, question) /\ AskQuestion

AdviceOnError(e, q) == AdviceFallback(q)

AdviceErrorToast(e) ==
  IF HasResponse(e)
  THEN <<"Failed to get financial advice: ", ToString(Status(e))>>
  ELSE IF HasRequest(e) THEN <<ConnectToast>>
  ELSE <<"Failed to get financial advice: ", e>>

AskQuestionOk(r, data) ==
  /\ r \in inflight /\ r.op = "advice"
  /\ Receive(r)
  /\ IF r.live
     THEN /\ advice' = data
          /\ question' = <<>>
          /\ loadingAsk' = FALSE
     ELSE UNCHANGED <<advice, question, loadingAsk>>
  /\ toast' = <<>>
  /\ UNCHANGED <<sessionVars, dashVars, advisorMounted, healthScore, optimization,
                 loadingHealth, loadingOptimization, widgetVars, budgetVars,
                 goalVars, unhandled, success>>

\* A catch block that clears the question as the success path does.
AskQuestionFailClears(r, e) ==
  /\ r \in inflight /\ r.op = "advice"
  /\ Receive(r)
  /\ IF r.live
     THEN /\ advice' = AdviceOnError(e, r.body)
          /\ question' = <<>>
          /\ loadingAsk' = FALSE
     ELSE UNCHANGED <<advice, question, loadingAsk>>
  /\ toast' = AdviceErrorToast(e)
  /\ UNCHANGED <<sessionVars, dashVars, advisorMounted, healthScore, optimization,
                 loadingHealth, loadingOptimization, widgetVars,
                 budgetVars, goalVars, unhandled, success>>

AskQuestionFail(r, e) ==
  /\ r \in inflight /\ r.op = "advice"
  /\ Receive(r)
  /\ IF r.live
     THEN /\ advice' = AdviceOnError(e, r.body)
          /\ loadingAsk' = FALSE
     ELSE UNCHANGED <<advice, loadingAsk>>
  /\ toast' = AdviceErrorToast(e)
  /\ UNCHANGED <<sessionVars, dashVars, advisorMounted, healthScore, optimization,
                 question, loadingHealth, loadingOptimization, widgetVars,
                 budgetVars, goalVars, unhandled, success>>

\* -------------------------------------------------------- MotivationalWidget
WidgetShown == DashVisible /\ activeTab = "overview"

\* fetchMotivation without the early return: the request goes out bare.
MotivationRequestBare(stored, id) ==
  IF Truthy(stored) THEN {Req(id, "motivation", Bearer(stored), NoBody)}
  ELSE {Req(id, "motivation", NoHeader, NoBody)}

MotivationRequest(stored, id) ==
  IF Truthy(stored) THEN {Req(id, "motivation", Bearer(stored), NoBody)} ELSE {}

\* fetchMotivation up to its await.
FetchMotivation ==
  /\ Room(calls, 1)
  /\ LET m == MotivationRequest(storedToken, calls + 1)
     IN /\ Send(m)
        /\ loadingMotivation' = (m # {})
        /\ quote' = IF m # {} THEN quote ELSE MotivationNoToken.quote
        /\ tip' = IF m # {} THEN tip ELSE MotivationNoToken.tip
  /\ toast' = <<>>

MountWidget ==
  /\ WidgetShown /\ ~widgetMounted
  /\ widgetMounted' = TRUE
  /\ FetchMotivation
  /\ UNCHANGED <<sessionVars, dashVars, advisorVars, budgetVars, goalVars, unhandled, success>>

\* A refresh button that is rendered while loading as well.
RefreshShownAlways(loading) == TRUE

\* The refresh button is rendered only while the widget is not loading.
RefreshShown(loading) == ~loading

RefreshMotivation ==
  /\ WidgetShown /\ widgetMounted
  /\ RefreshShown(loadingMotivation)
  /\ FetchMotivation
  /\ UNCHANGED <<sessionVars, dashVars, advisorVars, widgetMounted, budgetVars,
                 goalVars, unhandled, success>>

\* setQuote(response.data.quote || default), setTip(response.data.tip || default)
MotivationQuote(data, old) ==
  IF data = Null THEN old
  ELSE IF data.quote # "" THEN data.quote
  ELSE "Financial freedom is a journey, not a destination."

MotivationTip(data, old) ==
  IF data = Null THEN old
  ELSE IF data.tip # "" THEN data.tip
  ELSE "Start small, stay consistent."

FetchMotivationOk(r, data) ==
  /\ r \in inflight /\ r.op = "motivation"
  /\ Receive(r)
  /\ IF r.live
     THEN /\ quote' = MotivationQuote(data, quote)
          /\ tip' = MotivationTip(data, tip)
          /\ loadingMotivation' = FALSE
     ELSE UNCHANGED <<quote, tip, loadingMotivation>>
  /\ toast' = <<>>
  /\ UNCHANGED <<sessionVars, dashVars, advisorVars, widgetMounted, budgetVars,
                 goalVars, unhandled, success>>

MotivationOnError(e) == MotivationFallback

FetchMotivationFail(r, e) ==
  /\ r \in inflight /\ r.op = "motivation"
  /\ Receive(r)
  /\ IF r.live
     THEN /\ quote' = MotivationOnError(e).quote
          /\ tip' = MotivationOnError(e).tip
          /\ loadingMotivation' = FALSE
     ELSE UNCHANGED <<quote, tip, loadingMotivation>>
  /\ toast' = <<>>
  /\ UNCHANGED <<sessionVars, dashVars, advisorVars, widgetMounted, budgetVars,
                 goalVars, unhandled, success>>

\* -------------------------------------------------- CreateBudget, CreateGoal
\* A validateForm that never looks at the amount.
ViolationsButAmount(msg) ==
  [k \in {f \in DOMAIN msg : msg[f] # "" /\ f \notin {"amount", "target_amount"}} |-> msg[k]]

\* The object holding one message per field that has one.
Violations(msg) == [k \in {f \in DOMAIN msg : msg[f] # ""} |-> msg[k]]

\* A forEach that keeps the first message of a field instead of the last.
ServerErrorsFirst(detail) ==
  LET keyed == {i \in 1..Len(detail) : Len(detail[i].loc) > 1}
      keys == {detail[i].loc[2] : i \in keyed}
      firstOf(k) == CHOOSE i \in keyed :
                      /\ detail[i].loc[2] = k
                      /\ \A j \in keyed : detail[j].loc[2] = k => i <= j
  IN [k \in keys |-> detail[firstOf(k)].msg]

\* newErrors[err.loc[1]] = err.msg for each entry whose loc is longer than 1.
ServerErrors(detail) ==
  LET keyed == {i \in 1..Len(detail) : Len(detail[i].loc) > 1}
      keys == {detail[i].loc[2] : i \in keyed}
      lastOf(k) == CHOOSE i \in keyed :
                     /\ detail[i].loc[2] = k
                     /\ \A j \in keyed : detail[j].loc[2] = k => j <= i
  IN [k \in keys |-> detail[lastOf(k)].msg]

BudgetShown == DashVisible /\ activeTab = "budgets" /\ showCreateBudget

GoalShown == DashVisible /\ activeTab = "goals" /\ showCreateGoal

\* A comparison of dates with < where the code has <=.
NotAfterStrict(a, b) == a < b

\* new Date(x) <= new Date(y)
NotAfter(a, b) == a <= b

\* CreateBudget.validateForm
BudgetValidate(f) ==
  Violations(
    [category |-> IF Trim(f.category) = <<>> THEN "Category is required" ELSE "",
     amount |-> IF f.amount = "" THEN "Amount is required"
                ELSE IF ~IsNaN(f.amount) /\ ParseFloat(f.amount) <= 0
                THEN "Amount must be greater than 0"
                ELSE IF IsNaN(f.amount) THEN "Amount must be a valid number"
                ELSE "",
     start_date |-> IF f.start_date = "" THEN "Start date is required" ELSE "",
     end_date |-> IF f.end_date = "" THEN "End date is required"
                  ELSE IF f.start_date # "" /\ NotAfter(DateOf(f.end_date), DateOf(f.start_date))
                  THEN "End date must be after start date"
                  ELSE ""])

\* CreateGoal.validateForm
GoalValidate(f, now) ==
  Violations(
    [name |-> IF Trim(f.name) = <<>> THEN "Goal name is required" ELSE "",
     target_amount |-> IF f.target_amount = "" THEN "Target amount is required"
                       ELSE IF ~IsNaN(f.target_amount) /\ ParseFloat(f.target_amount) <= 0
                       THEN "Target amount must be greater than 0"
                       ELSE IF IsNaN(f.target_amount)
                       THEN "Target amount must be a valid number"
                       ELSE "",
     target_date |-> IF f.target_date = "" THEN "Target date is required"
                     ELSE IF NotAfter(DateOf(f.target_date), now)
                     THEN "Target date must be in the future"
                     ELSE "",
     goal_type |-> IF f.goal_type = "" THEN "Goal type is required" ELSE ""])

BudgetPayload(f) ==
  [category |-> Trim(f.category), amount |-> ParseFloat(f.amount),
   period |-> f.period, start_date |-> StartOfDay(f.start_date),
   end_date |-> EndOfDay(f.end_date)]

GoalPayload(f) ==
  [name |-> Trim(f.name), target_amount |-> ParseFloat(f.target_amount),
   target_date |-> StartOfDay(f.target_date), goal_type |-> f.goal_type]

BadAmount(s) == IsNaN(s) \/ ParseFloat(s) <= 0

\* handleSubmit without the test of the token: the request goes out bare.
BudgetRequestBare(stored, id, f) ==
  IF ~BadAmount(f.amount)
  THEN {Req(id, "budget", Bearer(stored), BudgetPayload(f))} ELSE {}

BudgetRequest(stored, id, f) ==
  IF Truthy(stored) /\ ~BadAmount(f.amount)
  THEN {Req(id, "budget", Bearer(stored), BudgetPayload(f))} ELSE {}

GoalRequest(stored, id, f) ==
  IF Truthy(stored) /\ ~BadAmount(f.target_amount)
  THEN {Req(id, "goal", Bearer(stored), GoalPayload(f))} ELSE {}

\* The button in the card header: setShowCreateBudget(!showCreateBudget).
ToggleCreateBudget ==
  /\ DashVisible /\ activeTab = "budgets"
  /\ showCreateBudget' = ~showCreateBudget
  /\ BudgetReset
  /\ Unmount({"budget"})
  /\ toast' = <<>>
  /\ UNCHANGED <<sessionVars, dashMounted, dashboardData, dashLoading, activeTab,
                 showCreateGoal, advisorVars, widgetVars, goalVars,
                 unhandled, success>>

ToggleCreateGoal ==
  /\ DashVisible /\ activeTab = "goals"
  /\ showCreateGoal' = ~showCreateGoal
  /\ GoalReset
  /\ Unmount({"goal"})
  /\ toast' = <<>>
  /\ UNCHANGED <<sessionVars, dashMounted, dashboardData, dashLoading, activeTab,
                 showCreateBudget, advisorVars, widgetVars, budgetVars,
                 unhandled, success>>

\* The form's Cancel button: onCancel = () => setShowCreateBudget(false).
CancelBudget ==
  /\ BudgetShown
  /\ showCreateBudget' = FALSE
  /\ BudgetReset
  /\ Unmount({"budget"})
  /\ toast' = <<>>
  /\ UNCHANGED <<sessionVars, dashMounted, dashboardData, dashLoading, activeTab,
                 showCreateGoal, advisorVars, widgetVars, goalVars,
                 unhandled, success>>

CancelGoal ==
  /\ GoalShown
  /\ showCreateGoal' = FALSE
  /\ GoalReset
  /\ Unmount({"goal"})
  /\ toast' = <<>>
  /\ UNCHANGED <<sessionVars, dashMounted, dashboardData, dashLoading, activeTab,
                 showCreateBudget, advisorVars, widgetVars, budgetVars,
                 unhandled, success>>

\* What is typed into the forms.
BudgetFieldValues ==
  [category |-> {<<>>, <<"f">>}, amount |-> {"", "10"}]

GoalFieldValues ==
  [name |-> {<<>>, <<"f">>}, target_amount |-> {"", "10"}]

\* Everything the fields can be made to hold.
BudgetFieldTexts ==
  [category |-> {<<>>, <<" ">>, <<"f">>}, amount |-> {"", "abc", "-5", "0", "10"},
   start_date |-> {"", "d1", "d2"}, end_date |-> {"", "d1", "d2"}]

GoalFieldTexts ==
  [name |-> {<<>>, <<" ">>, <<"f">>}, target_amount |-> {"", "abc", "-5", "0", "10"},
   target_date |-> {"", "d1", "d2"}, goal_type |-> {"", "savings"}]

\* CreateBudget.handleChange
BudgetChange(field, value) ==
  /\ BudgetShown /\ budgetForm[field] # value
  /\ budgetForm' = [budgetForm EXCEPT ![field] = value]
  /\ toast' = <<>>
  /\ UNCHANGED <<sessionVars, dashVars, advisorVars, widgetVars, budgetErrors,
                 budgetLoading, goalVars, netVars, unhandled, success>>

\* CreateGoal.handleChange
GoalChange(field, value) ==
  /\ GoalShown /\ goalForm[field] # value
  /\ goalForm' = [goalForm EXCEPT ![field] = value]
  /\ toast' = <<>>
  /\ UNCHANGED <<sessionVars, dashVars, advisorVars, widgetVars, budgetVars,
                 goalErrors, goalLoading, netVars, unhandled, success>>

\* The submit button is disabled while loading.
SubmitEnabled(loading) == ~loading

\* CreateBudget.handleSubmit up to its await.
BudgetSubmit ==
  /\ BudgetShown /\ SubmitEnabled(budgetLoading)
  /\ Room(calls, 1)
  /\ LET errs == BudgetValidate(budgetForm)
         b == BudgetRequest(storedToken, calls + 1, budgetForm)
     IN IF errs # NoErrors
        THEN /\ budgetErrors' = errs
             /\ toast' = <<"Please fix the validation errors">>
             /\ UNCHANGED <<budgetLoading, netVars>>
        ELSE /\ budgetErrors' = NoErrors
             /\ Send(b)
             /\ budgetLoading' = (b # {})
             /\ toast' = IF b # {} THEN <<>>
                         ELSE IF ~Truthy(storedToken) THEN <<"Please login again">>
                         ELSE <<"Please enter a valid amount">>
  /\ UNCHANGED <<sessionVars, dashVars, advisorVars, widgetVars, budgetForm,
                 goalVars, unhandled, success>>

\* CreateGoal.handleSubmit up to its await, called at the moment `now`.
GoalSubmit(now) ==
  /\ GoalShown /\ SubmitEnabled(goalLoading)
  /\ Room(calls, 1)
  /\ LET errs == GoalValidate(goalForm, now)
         g == GoalRequest(storedToken, calls + 1, goalForm)
     IN IF errs # NoErrors
        THEN /\ goalErrors' = errs
             /\ toast' = <<"Please fix the validation errors">>
             /\ UNCHANGED <<goalLoading, netVars>>
        ELSE /\ goalErrors' = NoErrors
             /\ Send(g)
             /\ goalLoading' = (g # {})
             /\ toast' = IF g # {} THEN <<>>
                         ELSE IF ~Truthy(storedToken) THEN <<"Please login again">>
                         ELSE <<"Please enter a valid target amount">>
  /\ UNCHANGED <<sessionVars, dashVars, advisorVars, widgetVars, budgetVars,
                 goalForm, unhandled, success>>

\* A catch block that reports a missing response the way the advisor does.
CreateErrorToastConnect(e, what) ==
  IF HasResponse(e) /\ Status(e) = 401 THEN <<"Session expired. Please login again.">>
  ELSE IF HasResponse(e) /\ Detail(e) # NoDetail
  THEN IF Detail(e).isArray THEN <<"Please fix the validation errors">>
       ELSE <<Detail(e).text>>
  ELSE IF HasRequest(e) THEN <<ConnectToast>>
  ELSE <<"Failed to create ", what, ". Please try again.">>

\* What the catch block of handleSubmit shows.
CreateErrorToast(e, what) ==
  IF HasResponse(e) /\ Status(e) = 401 THEN <<"Session expired. Please login again.">>
  ELSE IF HasResponse(e) /\ Detail(e) # NoDetail
  THEN IF Detail(e).isArray THEN <<"Please fix the validation errors">>
       ELSE <<Detail(e).text>>
  ELSE <<"Failed to create ", what, ". Please try again.">>

\* A catch block that reads the list of any rejection, a 401 included.
CreateErrorFieldsAny(e, old) ==
  IF HasResponse(e) /\ Detail(e).isArray
  THEN ServerErrors(Detail(e).items) ELSE old

\* The field errors the catch block leaves.
CreateErrorFields(e, old) ==
  IF HasResponse(e) /\ Status(e) # 401 /\ Detail(e).isArray
  THEN ServerErrors(Detail(e).items) ELSE old

\* A success path that resets the form and tells the dashboard nothing.
BudgetSubmitOkSilent(r) ==
  /\ r \in inflight /\ r.op = "budget"
  /\ Receive(r)
  /\ BudgetReset
  /\ toast' = <<"Budget created successfully!">>
  /\ UNCHANGED <<sessionVars, dashVars, advisorVars, widgetVars, goalVars, unhandled, success>>

\* The response arrived: toast, onBudgetCreated -> handleBudgetCreated
\* (setShowCreateBudget(false); fetchDashboardData()), then the form reset.
BudgetSubmitOk(r) ==
  /\ r \in inflight /\ r.op = "budget"
  /\ Room(calls, 1)
  /\ showCreateBudget' = FALSE
  /\ BudgetReset
  /\ LET rest == Orphan(inflight \ {r}, {"budget"})
         d == DashboardRequest(storedToken, calls + 1)
     IN inflight' = Sent(rest, d) /\ calls' = calls + Cardinality(d)
  /\ dashLoading' = IF Truthy(storedToken) THEN dashLoading ELSE FALSE
  /\ toast' = <<"Budget created successfully!">>
  /\ UNCHANGED <<sessionVars, dashMounted, dashboardData, activeTab, showCreateGoal,
                 advisorVars, widgetVars, goalVars, unhandled, success>>

GoalSubmitOk(r) ==
  /\ r \in inflight /\ r.op = "goal"
  /\ Room(calls, 1)
  /\ showCreateGoal' = FALSE
  /\ GoalReset
  /\ LET rest == Orphan(inflight \ {r}, {"goal"})
         d == DashboardRequest(storedToken, calls + 1)
     IN inflight' = Sent(rest, d) /\ calls' = calls + Cardinality(d)
  /\ dashLoading' = IF Truthy(storedToken) THEN dashLoading ELSE FALSE
  /\ toast' = <<"Goal created successfully!">>
  /\ UNCHANGED <<sessionVars, dashMounted, dashboardData, activeTab,
                 showCreateBudget, advisorVars, widgetVars, budgetVars, unhandled, success>>

\* A catch block that refreshes the dashboard as the success path does.
BudgetSubmitFailRefetch(r, e) ==
  /\ r \in inflight /\ r.op = "budget"
  /\ Room(calls, 1)
  /\ LET d == DashboardRequest(storedToken, calls + 1)
     IN inflight' = Sent(inflight \ {r}, d) /\ calls' = calls + Cardinality(d)
  /\ IF r.live
     THEN /\ budgetErrors' = CreateErrorFields(e, budgetErrors)
          /\ budgetLoading' = FALSE
     ELSE UNCHANGED <<budgetErrors, budgetLoading>>
  /\ toast' = CreateErrorToast(e, "budget")
  /\ UNCHANGED <<sessionVars, dashVars, advisorVars, widgetVars, budgetForm,
                 goalVars, unhandled, success>>

BudgetSubmitFail(r, e) ==
  /\ r \in inflight /\ r.op = "budget"
  /\ Receive(r)
  /\ IF r.live
     THEN /\ budgetErrors' = CreateErrorFields(e, budgetErrors)
          /\ budgetLoading' = FALSE
     ELSE UNCHANGED <<budgetErrors, budgetLoading>>
  /\ toast' = CreateErrorToast(e, "budget")
  /\ UNCHANGED <<sessionVars, dashVars, advisorVars, widgetVars, budgetForm,
                 goalVars, unhandled, success>>

GoalSubmitFail(r, e) ==
  /\ r \in inflight /\ r.op = "goal"
  /\ Receive(r)
  /\ IF r.live
     THEN /\ goalErrors' = CreateErrorFields(e, goalErrors)
          /\ goalLoading' = FALSE
     ELSE UNCHANGED <<goalErrors, goalLoading>>
  /\ toast' = CreateErrorToast(e, "goal")
  /\ UNCHANGED <<sessionVars, dashVars, advisorVars, widgetVars, budgetVars,
                 goalForm, unhandled, success>>

\* ---------------------------------------------------------------- restart
\* A reload of the page: every in-memory value starts over, localStorage stays.
Restart ==
  /\ ~authLoading
  /\ token' = storedToken
  /\ isAuthenticated' = FALSE
  /\ authLoading' = TRUE
  /\ defaultAuth' = NoHeader
  /\ DashboardReset /\ AdvisorReset /\ WidgetReset /\ BudgetReset /\ GoalReset
  /\ inflight' = {} /\ calls' = 0
  /\ toast' = <<>>
  /\ unhandled' = {}
  /\ success' = "none"
  /\ UNCHANGED storedToken

\* ------------------------------------------------------------ specification
Next ==
  \/ AuthEffect
  \/ LoginSubmit
  \/ \E r \in inflight, tok \in Tokens : LoginOk(r, tok)
  \/ \E r \in inflight, e \in Errors : LoginFail(r, e)
  \/ RegisterSubmit
  \/ \E r \in inflight : RegisterOk(r)
  \/ \E r \in inflight, e \in Errors : RegisterFail(r, e)
  \/ Logout
  \/ Restart
  \/ MountDashboard
  \/ \E r \in inflight, data \in DashboardPayloads \cup {Null} : FetchDashboardOk(r, data)
  \/ \E r \in inflight, e \in Errors : FetchDashboardFail(r, e)
  \/ \E t \in Tabs : SetActiveTab(t)
  \/ MountAdvisor
  \/ \E r \in inflight, data \in HealthPayloads : FetchHealthOk(r, data)
  \/ \E r \in inflight, e \in Errors : FetchHealthFail(r, e)
  \/ \E r \in inflight, data \in OptimizationPayloads : FetchOptimizationOk(r, data)
  \/ \E r \in inflight, e \in Errors : FetchOptimizationFail(r, e)
  \/ \E q \in Questions : SetQuestion(q)
  \/ HandleAskQuestion
  \/ \E r \in inflight, data \in AdvicePayloads : AskQuestionOk(r, data)
  \/ \E r \in inflight, e \in Errors : AskQuestionFail(r, e)
  \/ MountWidget
  \/ RefreshMotivation
  \/ \E r \in inflight, data \in MotivationPayloads \cup {Null} : FetchMotivationOk(r, data)
  \/ \E r \in inflight, e \in Errors : FetchMotivationFail(r, e)
  \/ ToggleCreateBudget
  \/ CancelBudget
  \/ \E f \in DOMAIN BudgetFieldValues : \E v \in BudgetFieldValues[f] : BudgetChange(f, v)
  \/ BudgetSubmit
  \/ \E r \in inflight : BudgetSubmitOk(r)
  \/ \E r \in inflight, e \in CreateErrors : BudgetSubmitFail(r, e)
  \/ ToggleCreateGoal
  \/ CancelGoal
  \/ \E f \in DOMAIN GoalFieldValues : \E v \in GoalFieldValues[f] : GoalChange(f, v)
  \/ \E now \in Nows : GoalSubmit(now)
  \/ \E r \in inflight : GoalSubmitOk(r)
  \/ \E r \in inflight, e \in CreateErrors : GoalSubmitFail(r, e)

Spec == Init /\ [][Next]_vars


\* ------------------------------------------------- the loaded dashboard alone
\* A restored session whose dashboard has loaded: the state AuthEffect,
\* MountDashboard and FetchDashboardOk lead to.  The requests are counted from
\* here.
Loaded ==
  /\ storedToken \in PersistedTokens /\ token = storedToken
  /\ isAuthenticated = TRUE /\ authLoading = FALSE
  /\ defaultAuth = Bearer(storedToken)
  /\ dashMounted = TRUE /\ dashboardData \in DashboardPayloads /\ dashLoading = FALSE
  /\ AdvisorInit /\ WidgetInit
  /\ inflight = {} /\ calls = 0
  /\ toast = <<>>
  /\ unhandled = {}
  /\ success = "none"

\* Two creations and the two refreshes they start fit under MaxCalls.
DashInit ==
  /\ Loaded
  /\ activeTab = "overview" /\ showCreateBudget = FALSE /\ showCreateGoal = FALSE
  /\ BudgetInit /\ GoalInit

DashNext ==
  \/ \E r \in inflight, data \in DashboardPayloads \cup {Null} : FetchDashboardOk(r, data)
  \/ \E r \in inflight, e \in Errors : FetchDashboardFail(r, e)
  \/ \E t \in Tabs : SetActiveTab(t)
  \/ ToggleCreateBudget
  \/ CancelBudget
  \/ \E f \in DOMAIN BudgetFieldValues : \E v \in BudgetFieldValues[f] : BudgetChange(f, v)
  \/ BudgetSubmit
  \/ \E r \in inflight : BudgetSubmitOk(r)
  \/ \E r \in inflight, e \in CreateErrors : BudgetSubmitFail(r, e)
  \/ ToggleCreateGoal
  \/ CancelGoal
  \/ \E f \in DOMAIN GoalFieldValues : \E v \in GoalFieldValues[f] : GoalChange(f, v)
  \/ \E now \in Nows : GoalSubmit(now)
  \/ \E r \in inflight : GoalSubmitOk(r)
  \/ \E r \in inflight, e \in CreateErrors : GoalSubmitFail(r, e)

DashSpec == DashInit /\ [][DashNext]_vars

\* ------------------------------------------- the forms, with every field text
BudgetForms ==
  [category : BudgetFieldTexts.category, amount : BudgetFieldTexts.amount,
   period : {"monthly"}, start_date : BudgetFieldTexts.start_date,
   end_date : BudgetFieldTexts.end_date]

GoalForms ==
  [name : GoalFieldTexts.name, target_amount : GoalFieldTexts.target_amount,
   target_date : GoalFieldTexts.target_date, goal_type : GoalFieldTexts.goal_type]

\* One of the two forms is open and filled in, in every way it can be.
FormInit ==
  /\ Loaded
  /\ activeTab \in {"budgets", "goals"}
  /\ showCreateBudget = (activeTab = "budgets") /\ showCreateGoal = (activeTab = "goals")
  /\ budgetForm \in (IF showCreateBudget THEN BudgetForms ELSE {BudgetDefaults})
  /\ budgetErrors = NoErrors /\ budgetLoading = FALSE
  /\ goalForm \in (IF showCreateGoal THEN GoalForms ELSE {GoalDefaults})
  /\ goalErrors = NoErrors /\ goalLoading = FALSE

\* The form is submitted and the server rejects it, with every body of
\* RejectionErrors.
FormNext ==
  \/ BudgetSubmit
  \/ \E r \in inflight, e \in RejectionErrors : BudgetSubmitFail(r, e)
  \/ \E now \in Nows : GoalSubmit(now)
  \/ \E r \in inflight, e \in RejectionErrors : GoalSubmitFail(r, e)

FormSpec == FormInit /\ [][FormNext]_vars

\* ------------------------------------------------ the ask form, however driven
AskNext ==
  \/ AuthEffect
  \/ MountDashboard
  \/ \E r \in inflight, data \in DashboardPayloads : FetchDashboardOk(r, data)
  \/ \E r \in inflight, e \in Errors : FetchDashboardFail(r, e)
  \/ \E t \in Tabs : SetActiveTab(t)
  \/ MountAdvisor
  \/ \E r \in inflight, data \in HealthPayloads : FetchHealthOk(r, data)
  \/ \E r \in inflight, e \in Errors : FetchHealthFail(r, e)
  \/ \E r \in inflight, data \in OptimizationPayloads : FetchOptimizationOk(r, data)
  \/ \E r \in inflight, e \in Errors : FetchOptimizationFail(r, e)
  \/ \E q \in Questions : SetQuestion(q)
  \/ HandleAskQuestion
  \/ SubmitAskForm
  \/ \E r \in inflight, data \in AdvicePayloads : AskQuestionOk(r, data)
  \/ \E r \in inflight, e \in Errors : AskQuestionFail(r, e)

AskSpec == Init /\ [][AskNext]_vars

\* ------------------------------------------------------------------ progress
\* The calls given a timeout option: login 10 s, the advisory reads 30 s, the
\* question 60 s.  The dashboard fetch and the two create calls are given none.
TimedOps == {"login", "health", "optimization", "advice", "motivation"}

\* axios rejects a timed call once its time is up.
TimeoutElapses ==
  \E r \in {q \in inflight : q.op \in TimedOps} :
    \/ LoginFail(r, "etimeout")
    \/ FetchHealthFail(r, "etimeout")
    \/ FetchOptimizationFail(r, "etimeout")
    \/ AskQuestionFail(r, "etimeout")
    \/ FetchMotivationFail(r, "etimeout")

\* React runs every effect of a committed render.
Effects == AuthEffect \/ MountDashboard \/ MountAdvisor \/ MountWidget

\* The program with a backend that need not answer: effects run, timeouts
\* elapse, and nothing else is promised.
LiveSpec == Init /\ [][Next]_vars /\ WF_vars(Effects) /\ WF_vars(TimeoutElapses)
\* ------------------------------------------------------------ the stats cards
\* typeof v === 'number' ? v : parseFloat(v || d): a number is taken as it is;
\* otherwise v, or d when v is falsy, is parsed, a text by ParseFloat unless
\* it holds no number, a number to itself.
Resolve(v, d) ==
  LET falsy == v \in {Undefined, Str(""), Num(0), NaN}
      x == IF falsy THEN d ELSE v
  IN IF v.type = "number" THEN v
     ELSE IF x.type = "number" THEN x
     ELSE IF x.type = "string" /\ ~IsNaN(x.s) THEN Num(ParseFloat(x.s))
     ELSE NaN

\* A default of 0, as the three totals have.
NetIncomeDefaultZero(income, expenses) == Num(0)

\* total_income - total_expenses
NetIncomeDefault(income, expenses) ==
  IF income = NaN \/ expenses = NaN THEN NaN ELSE Num(income.n - expenses.n)

\* The four values StatsCards shows for the snapshot `data`.
StatsCards(data) ==
  LET total_income == Resolve(data.total_income, Num(0))
      total_expenses == Resolve(data.total_expenses, Num(0))
  IN [total_balance |-> Resolve(data.total_balance, Num(0)),
      total_income |-> total_income,
      total_expenses |-> total_expenses,
      net_income |-> Resolve(data.net_income, NetIncomeDefault(total_income, total_expenses))]

\* Dashboard renders StatsCards on the overview tab when total_balance is
\* neither undefined nor null.
StatsShown ==
  DashVisible /\ activeTab = "overview" /\ dashboardData.total_balance # Undefined

\* The dashboard alone, with a server that sends the totals in every form.
StatsNext ==
  \/ AuthEffect
  \/ MountDashboard
  \/ \E r \in inflight, data \in SnapshotPayloads : FetchDashboardOk(r, data)
  \/ \E r \in inflight, e \in Errors : FetchDashboardFail(r, e)
  \/ \E t \in Tabs : SetActiveTab(t)

StatsSpec == Init /\ [][StatsNext]_vars

\* ------------------------------------------------------- the session alone
\* The login and register pages, the dashboard as far as its Logout button,
\* and the reload of the page.
AuthNext ==
  \/ AuthEffect
  \/ LoginSubmit
  \/ \E r \in inflight, tok \in Tokens : LoginOk(r, tok)
  \/ \E r \in inflight, e \in Errors : LoginFail(r, e)
  \/ RegisterSubmit
  \/ \E r \in inflight : RegisterOk(r)
  \/ \E r \in inflight, e \in Errors : RegisterFail(r, e)
  \/ MountDashboard
  \/ \E r \in inflight, data \in DashboardPayloads : FetchDashboardOk(r, data)
  \/ \E r \in inflight, e \in Errors : FetchDashboardFail(r, e)
  \/ Logout
  \/ Restart

AuthSpec == Init /\ [][AuthNext]_vars

\* ===================================================================
\* Properties
\* ===================================================================
\* The requests a step issued.
Issued == {r \in inflight' : r.id > calls}

\* C1: whichever way an advisory call fails (401, another rejection, no
\* response, timeout, or a failure before sending), the handler stores that
\* operation's fallback payload, the same for every kind of failure, and
\* nothing escapes the handler.
C1_FallbackOnEveryFailure ==
  [][\A r \in {q \in inflight : q.live} : \A e \in Errors :
       /\ FetchHealthFail(r, e) =>
            (healthScore' = HealthFallback /\ ~loadingHealth' /\ unhandled' = {})
       /\ FetchOptimizationFail(r, e) =>
            (optimization' = OptimizationFallback /\ ~loadingOptimization'
               /\ unhandled' = {})
       /\ AskQuestionFail(r, e) =>
            (advice' = AdviceFallback(r.body) /\ ~loadingAsk' /\ unhandled' = {})
       /\ FetchMotivationFail(r, e) =>
            (/\ quote' = MotivationFallback.quote /\ tip' = MotivationFallback.tip
             /\ ~loadingMotivation' /\ unhandled' = {})]_vars

\* The three advisor results are fallbacks, the last one stored for a call
\* that got no response.
C1_Witness ==
  /\ healthScore = HealthFallback /\ optimization = OptimizationFallback
  /\ advice = AdviceFallback(<<"a">>) /\ toast = <<ConnectToast>>
  /\ ~loadingHealth /\ ~loadingOptimization /\ ~loadingAsk

\* C2 as the specification states it: when an advisory call is answered 401
\* the session is cleared.
C2_AdvisoryClearsSessionOn401 ==
  [][\A r \in inflight :
       (/\ r.live
        /\ \/ FetchHealthFail(r, "e401") \/ FetchOptimizationFail(r, "e401")
           \/ AskQuestionFail(r, "e401") \/ FetchMotivationFail(r, "e401"))
       => (storedToken' = NoToken /\ ~isAuthenticated')]_vars

\* C3 as the specification states it: in every reachable state the session is
\* authenticated exactly when a credential is present.
C3_AuthenticatedIffCredential == isAuthenticated <=> Truthy(storedToken)

\* C3: once the provider's first effect has run (loading is false), the session
\* is authenticated exactly when a credential is stored, and the token held in
\* memory is the stored one.
C3_AuthenticatedIffCredentialOnceLoaded ==
  ~authLoading => /\ isAuthenticated <=> Truthy(storedToken)
                  /\ token = storedToken
                  /\ defaultAuth = (IF Truthy(storedToken) THEN Bearer(storedToken) ELSE NoHeader)

\* A session logged in again after the persisted credential was given up.
C3_Witness ==
  /\ ~authLoading /\ isAuthenticated /\ storedToken = "t2"
  /\ \E r \in inflight : r.auth = Bearer("t1")

\* C4: a dashboard fetch answered 401 removes the stored credential and logs
\* out: token, flag and default header are cleared and the logout toast shows.
C4_Dashboard401LogsOut ==
  [][\A r \in inflight : FetchDashboardFail(r, "e401") =>
       /\ storedToken' = NoToken /\ token' = NoToken /\ ~isAuthenticated'
       /\ defaultAuth' = NoHeader /\ toast' = <<"Logged out successfully">>]_vars

\* The first dashboard fetch of a restored session has failed and the session
\* is gone.
C4_Witness ==
  /\ calls = 1 /\ inflight = {} /\ dashboardData = EmptyDashboard
  /\ storedToken = NoToken /\ ~isAuthenticated
  /\ toast = <<"Logged out successfully">>

\* C5: a dashboard fetch that fails (rejected, no response, timed out) leaves
\* a snapshot with every total at zero and every list empty, never an absent one.
C5_DashboardFailureGivesEmptySnapshot ==
  [][\A r \in inflight : \A e \in Errors : FetchDashboardFail(r, e) =>
       /\ dashboardData' # Null /\ ~dashLoading'
       /\ dashboardData'.budgets = <<>> /\ dashboardData'.goals = <<>>
       /\ dashboardData'.recent_transactions = <<>>
       /\ dashboardData'.total_balance = Num(0) /\ dashboardData'.total_income = Num(0)
       /\ dashboardData'.total_expenses = Num(0) /\ dashboardData'.net_income = Num(0)]_vars

\* The empty snapshot is shown to a session that still holds its credential.
C5_Witness ==
  /\ dashboardData = EmptyDashboard /\ ~dashLoading /\ inflight = {}
  /\ isAuthenticated /\ storedToken = "t1" /\ calls = 1

\* C6 as the specification states it: a create call answered 401 clears the
\* session.
C6_CreateClearsSessionOn401 ==
  [][\A r \in inflight :
       (r.live /\ (BudgetSubmitFail(r, "e401") \/ GoalSubmitFail(r, "e401")))
       => (storedToken' = NoToken /\ ~isAuthenticated')]_vars

\* C7: logout and a detected invalidation leave no credential where a call
\* reads one, and every request issued afterwards carries either no
\* credential or the one stored at the moment it is issued.
C7_NoCallCarriesClearedCredential ==
  [][/\ (Logout \/ \E r \in inflight : FetchDashboardFail(r, "e401")) =>
          storedToken' = NoToken /\ defaultAuth' = NoHeader
     /\ \A r \in Issued :
          r.auth = NoHeader \/ (Truthy(storedToken) /\ r.auth = Bearer(storedToken))]_vars

\* A request sent with the first credential is still pending while one sent
\* after the new login carries the second.
C7_Witness ==
  /\ storedToken = "t2"
  /\ \E r1, r2 \in inflight :
       /\ r1.auth = Bearer("t1") /\ r2.auth = Bearer("t2")
       /\ r1.id < r2.id /\ r2.op # "login"

\* C8: each of the seven authenticated operations sends nothing when no
\* credential is stored, and with a credential sends its request with that
\* credential as bearer header.
C8_CredentialGatesEveryCall ==
  [][/\ \A r \in Issued : r.op \in AuthenticatedOps =>
          (Truthy(storedToken) /\ r.auth = Bearer(storedToken))
     /\ ~Truthy(storedToken) => (\A r \in Issued : r.op \notin AuthenticatedOps)
     /\ (Truthy(storedToken) /\ MountDashboard) => (\E r \in Issued : r.op = "dashboard")
     /\ (Truthy(storedToken) /\ MountAdvisor) =>
          ({r.op : r \in Issued} = {"health", "optimization"})
     /\ (Truthy(storedToken) /\ HandleAskQuestion) => (\E r \in Issued : r.op = "advice")
     /\ (Truthy(storedToken) /\ (MountWidget \/ RefreshMotivation)) =>
          (\E r \in Issued : r.op = "motivation")
     /\ (Truthy(storedToken) /\ BudgetSubmit /\ BudgetValidate(budgetForm) = NoErrors) =>
          (\E r \in Issued : r.op = "budget")
     /\ (\E now \in Nows : Truthy(storedToken) /\ GoalSubmit(now)
                              /\ GoalValidate(goalForm, now) = NoErrors) =>
          (\E r \in Issued : r.op = "goal")]_vars

\* A question was asked without a credential, after requests had been sent
\* with one: nothing is pending for it.
C8_Witness ==
  /\ ~Truthy(storedToken) /\ toast = <<"Please log in to ask questions">>
  /\ calls >= 1 /\ \A r \in inflight : r.op # "advice"

\* C9: the three advisory reads do not touch each other: the completion of
\* one, however it ends, writes its own result from its own response and
\* leaves the result and the loading flag of the other two as they were, so the
\* state after all three is the same in every order.
C9_AdvisoryReadsIndependent ==
  [][\A r \in inflight :
       /\ ((\E e \in Errors : FetchHealthFail(r, e))
           \/ (\E d \in HealthPayloads : FetchHealthOk(r, d)))
          => UNCHANGED <<optimization, loadingOptimization, quote, tip, loadingMotivation>>
       /\ ((\E e \in Errors : FetchOptimizationFail(r, e))
           \/ (\E d \in OptimizationPayloads : FetchOptimizationOk(r, d)))
          => UNCHANGED <<healthScore, loadingHealth, quote, tip, loadingMotivation>>
       /\ ((\E e \in Errors : FetchMotivationFail(r, e))
           \/ (\E d \in MotivationPayloads \cup {Null} : FetchMotivationOk(r, d)))
          => UNCHANGED <<healthScore, loadingHealth, optimization, loadingOptimization>>]_vars

\* The health read has completed while the optimization read and a motivation
\* read are still pending.
C9_Witness ==
  /\ healthScore # Null /\ ~loadingHealth /\ loadingOptimization
  /\ \E r \in inflight : r.op = "optimization" /\ r.live
  /\ \E r \in inflight : r.op = "motivation"

C11_LaterDashboardFetchWins ==
  [][\A r \in inflight :
       (/\ r.op = "dashboard" /\ ~r.newest
        /\ ~\E q \in inflight : q.op = "dashboard" /\ q.newest
        /\ \/ \E d \in DashboardPayloads \cup {Null} : FetchDashboardOk(r, d)
           \/ \E e \in Errors : FetchDashboardFail(r, e))
       => UNCHANGED dashboardData]_vars

\* C12 as the specification states it: a mounted dashboard stops loading and
\* comes to hold a snapshot, each advisory read that is loading stops loading
\* with a result, and a create form that is submitting stops submitting.
C12_EveryOperationTerminates ==
  /\ dashMounted ~> (~dashMounted \/ (~dashLoading /\ dashboardData # Null))
  /\ advisorMounted ~> (~advisorMounted \/ (~loadingHealth /\ healthScore # Null))
  /\ advisorMounted ~> (~advisorMounted \/ (~loadingOptimization /\ optimization # Null))
  /\ loadingAsk ~> (~advisorMounted \/ (~loadingAsk /\ advice # Null))
  /\ (widgetMounted /\ loadingMotivation) ~> ~(widgetMounted /\ loadingMotivation)
  /\ budgetLoading ~> ~budgetLoading
  /\ goalLoading ~> ~goalLoading

\* C13: a submit whose form has a violation (a blank required field, an amount
\* missing, not a number or not above 0, a date missing or out of order) sends
\* nothing, leaves the list and the dashboard as they are, and leaves one
\* message for exactly each field in violation; an amount not above 0 gets the
\* "must be greater than 0" message.
C13_SubmitFailsClosed ==
  [][/\ BudgetSubmit =>
          LET f == budgetForm
              bad == {k \in {"category"} : Trim(f.category) = <<>>}
                       \cup {k \in {"amount"} : f.amount = "" \/ IsNaN(f.amount)
                                                   \/ ParseFloat(f.amount) <= 0}
                       \cup {k \in {"start_date"} : f.start_date = ""}
                       \cup {k \in {"end_date"} :
                               \/ f.end_date = ""
                               \/ f.start_date # "" /\ Day(f.end_date) <= Day(f.start_date)}
          IN /\ DOMAIN budgetErrors' = bad
             /\ bad # {} => /\ Issued = {} /\ UNCHANGED <<netVars, dashVars, budgetLoading>>
                            /\ toast' = <<"Please fix the validation errors">>
             /\ (f.amount \in {"-5", "0"}) =>
                   budgetErrors'.amount = "Amount must be greater than 0"
     /\ \A now \in Nows : GoalSubmit(now) =>
          LET f == goalForm
              bad == {k \in {"name"} : Trim(f.name) = <<>>}
                       \cup {k \in {"target_amount"} :
                               f.target_amount = "" \/ IsNaN(f.target_amount)
                                 \/ ParseFloat(f.target_amount) <= 0}
                       \cup {k \in {"target_date"} :
                               f.target_date = "" \/ Day(f.target_date) <= Day(Today)}
                       \cup {k \in {"goal_type"} : f.goal_type = ""}
          IN /\ DOMAIN goalErrors' = bad
             /\ bad # {} => /\ Issued = {} /\ UNCHANGED <<netVars, dashVars, goalLoading>>
                            /\ toast' = <<"Please fix the validation errors">>
             /\ (f.target_amount \in {"-5", "0"}) =>
                   goalErrors'.target_amount = "Target amount must be greater than 0"]_vars

\* A goal with a target amount of -5 was submitted: the amount carries its
\* message and no request was ever sent.
C13_Witness ==
  /\ goalForm.target_amount = "-5" /\ goalForm.name = <<"f">>
  /\ goalErrors = [target_amount |-> "Target amount must be greater than 0"]
  /\ inflight = {} /\ calls = 0 /\ showCreateGoal /\ ~goalLoading

\* C14: with both dates given, a budget is turned away for its end date exactly
\* when the end date is the start date or before it; a goal is turned away for
\* its target date exactly when that date is the moment of submission or
\* before it.
C14_DateOrderIsStrict ==
  [][/\ BudgetSubmit =>
          ((budgetForm.start_date # "" /\ budgetForm.end_date # "") =>
             (("end_date" \in DOMAIN budgetErrors')
                <=> DateOf(budgetForm.end_date) <= DateOf(budgetForm.start_date)))
     /\ \A now \in Nows : GoalSubmit(now) =>
          (goalForm.target_date # "" =>
             (("target_date" \in DOMAIN goalErrors')
                <=> DateOf(goalForm.target_date) <= now))]_vars

\* A budget that is otherwise complete, ending on the day it starts, was
\* submitted and turned away.
C14_Witness ==
  /\ budgetForm.start_date = "d1" /\ budgetForm.end_date = "d1"
  /\ budgetErrors = [end_date |-> "End date must be after start date"]
  /\ inflight = {} /\ calls = 0 /\ showCreateBudget

\* What a rejection leaves when every entry of its list is kept.
C15_EveryMessage(e, errs, shown) ==
  IF Detail(e).isArray
  THEN LET items == Detail(e).items
           deep == {i \in 1..Len(items) : Len(items[i].loc) >= 2}
       IN /\ DOMAIN errs = {items[i].loc[2] : i \in deep}
          /\ \A i \in deep : errs[items[i].loc[2]] = items[i].msg
  ELSE errs = NoErrors /\ shown # <<>> /\ shown # <<"Please fix the validation errors">>

\* C15 as the specification states it: after a rejection that carries a list,
\* every entry whose path has two segments or more has its message under its
\* second segment, and nothing else is there; after any other rejection the
\* field errors are empty and only the toast speaks.
C15_EveryEntryBecomesFieldError ==
  [][\A r \in {q \in inflight : q.live} : \A e \in {x \in RejectionErrors : Status(x) # 401} :
       /\ BudgetSubmitFail(r, e) => C15_EveryMessage(e, budgetErrors', toast')
       /\ GoalSubmitFail(r, e) => C15_EveryMessage(e, goalErrors', toast')]_vars

\* What a rejection leaves when a field named by several entries keeps the last.
C15_LastMessage(e, errs, shown) ==
  IF Detail(e).isArray
  THEN LET items == Detail(e).items
           deep == {i \in 1..Len(items) : Len(items[i].loc) >= 2}
       IN /\ DOMAIN errs = {items[i].loc[2] : i \in deep}
          /\ \A i \in deep :
               (\A j \in deep : j > i => items[j].loc[2] # items[i].loc[2])
                 => errs[items[i].loc[2]] = items[i].msg
  ELSE errs = NoErrors /\ shown # <<>> /\ shown # <<"Please fix the validation errors">>

\* C15: after a rejection that carries a list, each field named by an entry
\* whose path has two segments or more holds the message of the last entry
\* naming it, and nothing else is there; after any other rejection the field
\* errors are empty and only the toast speaks.
C15_LastEntryOfFieldBecomesFieldError ==
  [][\A r \in {q \in inflight : q.live} : \A e \in {x \in RejectionErrors : Status(x) # 401} :
       /\ BudgetSubmitFail(r, e) => C15_LastMessage(e, budgetErrors', toast')
       /\ GoalSubmitFail(r, e) => C15_LastMessage(e, goalErrors', toast')]_vars

\* The server named the amount twice and the category once: the amount shows
\* the second message.
C15_Witness ==
  /\ budgetErrors = [amount |-> "ensure this value is greater than 0",
                     category |-> "field required"]
  /\ toast = <<"Please fix the validation errors">> /\ ~budgetLoading /\ calls = 1

\* C16: a dashboard request is sent by the mount effect or by the step that
\* receives a create call's success, which takes that call out of flight;
\* a submit, a failed create call and a form turned away locally send none.
C16_RefetchOnlyAfterCreateSuccess ==
  [][/\ (\E d \in Issued : d.op = "dashboard") =>
          (MountDashboard \/ \E r \in inflight :
             (BudgetSubmitOk(r) \/ GoalSubmitOk(r)) /\ r \notin inflight')
     /\ (\/ BudgetSubmit \/ \E now \in Nows : GoalSubmit(now)
         \/ \E r \in inflight, e \in CreateErrors :
              BudgetSubmitFail(r, e) \/ GoalSubmitFail(r, e))
          => ~\E d \in Issued : d.op = "dashboard"]_vars

\* The refresh that follows a created budget is pending.
C16_Witness ==
  /\ toast = <<"Budget created successfully!">> /\ ~showCreateBudget
  /\ \E d \in inflight : d.op = "dashboard" /\ d.id = calls
  /\ \A r \in inflight : r.op # "budget"

\* C17 as the specification states it: a call whose time ran out is handled
\* as timed out, not as a server that cannot be reached.
C17_TimeoutHandledApart ==
  [][\A r \in inflight :
       (\/ LoginFail(r, "etimeout") \/ FetchHealthFail(r, "etimeout")
        \/ FetchOptimizationFail(r, "etimeout") \/ AskQuestionFail(r, "etimeout"))
       => toast' # <<ConnectToast>>]_vars

\* C18 as the specification states it: whatever makes the widget or the
\* advisor fall back (no credential, a failed call) and whatever was asked,
\* the payload shown for an operation is the same one.
C18_FallbackDependsOnOperationOnly ==
  [][/\ ((MountWidget \/ RefreshMotivation) /\ ~Truthy(storedToken)) =>
          (quote' = MotivationFallback.quote /\ tip' = MotivationFallback.tip)
     /\ \A r \in {q \in inflight : q.live} : \A e \in Errors :
          /\ FetchMotivationFail(r, e) =>
               (quote' = MotivationFallback.quote /\ tip' = MotivationFallback.tip)
          /\ AskQuestionFail(r, e) => (\A q \in Questions : advice' = AdviceFallback(q))]_vars

\* C19 as the specification states it: what is stored after an answer cannot
\* be taken for what is stored after a failure, and an answer is stored as it
\* came, without defaults written into it.
C19_ResultRecordsItsOrigin ==
  [][\A r \in {q \in inflight : q.live} :
       /\ \A d \in HealthPayloads :
            FetchHealthOk(r, d) => healthScore' \notin {HealthOnError(e) : e \in Errors}
       /\ \A d \in MotivationPayloads :
            FetchMotivationOk(r, d) => (quote' = d.quote /\ tip' = d.tip)]_vars

\* C20: the ask form submitted with a question that is empty or only blanks
\* sends nothing and leaves the advice, the question and the loading flag.
C20_BlankQuestionIsNoOp ==
  [][((HandleAskQuestion \/ SubmitAskForm) /\ Trim(question) = <<>>) =>
       (Issued = {} /\ UNCHANGED <<netVars, advisorVars>>)]_vars

\* An answered question is on screen, a blank has been typed, and the form
\* can be submitted.
C20_Witness ==
  /\ advice \in AdvicePayloads /\ question = <<" ">> /\ ~loadingAsk
  /\ ENABLED SubmitAskForm

\* C21: a create request that fails without a response (unreachable, timed
\* out, never sent) shows the retry message of its form and leaves the form's
\* field errors empty, whatever they were before the submit.
C21_NoResponseGivesRetryMessage ==
  [][\A r \in {q \in inflight : q.live} : \A e \in {x \in CreateErrors : ~HasResponse(x)} :
       /\ BudgetSubmitFail(r, e) =>
            (/\ toast' = <<"Failed to create ", "budget", ". Please try again.">>
             /\ budgetErrors' = NoErrors /\ ~budgetLoading')
       /\ GoalSubmitFail(r, e) =>
            (/\ toast' = <<"Failed to create ", "goal", ". Please try again.">>
             /\ goalErrors' = NoErrors /\ ~goalLoading')]_vars

\* The budget form after its second request of the run failed without a
\* response: the retry message, no field error, the entries kept.
C21_Witness ==
  /\ BudgetShown /\ ~budgetLoading /\ budgetErrors = NoErrors
  /\ budgetForm.category = <<"f">> /\ budgetForm.amount = "10"
  /\ toast = <<"Failed to create ", "budget", ". Please try again.">>
  /\ calls = 2 /\ inflight = {}

\* C22: a create request answered 401 shows the session-expired message and
\* leaves the form's field errors empty, also when the body of the 401 holds a
\* list of field-path errors.
C22_Create401ShowsSessionExpiredOnly ==
  [][\A r \in {q \in inflight : q.live} : \A e \in {x \in RejectionErrors : Status(x) = 401} :
       /\ BudgetSubmitFail(r, e) =>
            (/\ toast' = <<"Session expired. Please login again.">>
             /\ budgetErrors' = NoErrors /\ ~budgetLoading')
       /\ GoalSubmitFail(r, e) =>
            (/\ toast' = <<"Session expired. Please login again.">>
             /\ goalErrors' = NoErrors /\ ~goalLoading')]_vars

\* The goal form after its request was answered 401.
C22_Witness ==
  /\ GoalShown /\ ~goalLoading /\ goalErrors = NoErrors
  /\ goalForm.name = <<"f">>
  /\ toast = <<"Session expired. Please login again.">>
  /\ calls = 1 /\ inflight = {}

\* C23: when a create request succeeds the form is back at its defaults with
\* no field error and not loading, it is closed, and the dashboard fetch has
\* been run once: one dashboard request is issued, and nothing else, when a
\* credential is stored.
C23_CreateSuccessResetsAndRefetchesOnce ==
  [][\A r \in inflight :
       /\ BudgetSubmitOk(r) =>
            (/\ budgetForm' = BudgetDefaults /\ budgetErrors' = NoErrors /\ ~budgetLoading'
             /\ ~showCreateBudget'
             /\ \A d \in Issued : d.op = "dashboard"
             /\ Cardinality(Issued) = (IF Truthy(storedToken) THEN 1 ELSE 0))
       /\ GoalSubmitOk(r) =>
            (/\ goalForm' = GoalDefaults /\ goalErrors' = NoErrors /\ ~goalLoading'
             /\ ~showCreateGoal'
             /\ \A d \in Issued : d.op = "dashboard"
             /\ Cardinality(Issued) = (IF Truthy(storedToken) THEN 1 ELSE 0))]_vars

\* A budget has just been created: the form is reset and closed and the
\* dashboard request it started is the newest request of the run.
C23_Witness ==
  /\ toast = <<"Budget created successfully!">>
  /\ budgetForm = BudgetDefaults /\ budgetErrors = NoErrors /\ ~budgetLoading
  /\ ~showCreateBudget
  /\ calls = 2 /\ \E d \in inflight : d.op = "dashboard" /\ d.id = calls /\ d.live

\* C24 as the specification states it: the total balance, income and expenses
\* shown are numbers whatever arrived, and a text that holds no number is
\* shown as 0.
C24_ResolvedTotalsAreNumbers ==
  StatsShown =>
    \A f \in {"total_balance", "total_income", "total_expenses"} :
      LET v == StatsCards(dashboardData)[f]
      IN /\ v.type = "number" /\ v # NaN
         /\ dashboardData[f] = Str("abc") => v = Num(0)

\* C25: when net_income did not arrive, the net income shown is the income
\* shown minus the expenses shown; when it arrived as a number, zero
\* included, it is shown as it arrived.
C25_NetIncomeDefaultsToDifference ==
  StatsShown =>
    LET shown == StatsCards(dashboardData)
    IN /\ dashboardData.net_income = Undefined =>
            IF shown.total_income = NaN \/ shown.total_expenses = NaN
            THEN shown.net_income = NaN
            ELSE shown.net_income = Num(shown.total_income.n - shown.total_expenses.n)
       /\ dashboardData.net_income.type = "number" =>
            shown.net_income = dashboardData.net_income

\* The cards show 50 - 10 = 40 for a snapshot without net_income whose
\* expenses arrived as the text "10".
C25_Witness ==
  /\ StatsShown
  /\ dashboardData.net_income = Undefined
  /\ dashboardData.total_income = Num(50) /\ dashboardData.total_expenses = Str("10")
  /\ StatsCards(dashboardData).net_income = Num(40)

\* C26: a reload of the page keeps the stored credential, and the session
\* that starts from it is authenticated with that credential exactly when one
\* is stored; a logout and a dashboard fetch answered 401 leave none stored.
C26_CredentialSurvivesRestart ==
  [][/\ Restart => (storedToken' = storedToken /\ token' = storedToken /\ authLoading')
     /\ AuthEffect =>
          (/\ storedToken' = storedToken /\ token' = storedToken /\ ~authLoading'
           /\ isAuthenticated' = Truthy(storedToken)
           /\ defaultAuth' = (IF Truthy(storedToken) THEN Bearer(storedToken) ELSE NoHeader))
     /\ (Logout \/ \E r \in inflight : FetchDashboardFail(r, "e401")) =>
          (storedToken' = NoToken /\ token' = NoToken /\ ~isAuthenticated')]_vars

\* A session restored after a reload from the credential a login had stored.
C26_Witness ==
  /\ ~authLoading /\ isAuthenticated /\ success = "none"
  /\ storedToken = "t2" /\ token = "t2" /\ defaultAuth = Bearer("t2")

\* C27: a login that fails, however it fails, leaves the stored credential,
\* the token, the flag and the default header as they were and returns false;
\* a login that succeeds sets them from the token received and returns true;
\* no other step stores a credential.
C27_FailedLoginLeavesSession ==
  [][/\ \A r \in inflight :
          /\ \A e \in Errors : LoginFail(r, e) =>
               (UNCHANGED <<storedToken, token, isAuthenticated, defaultAuth>>
                /\ success' = "false")
          /\ \A tok \in Tokens : LoginOk(r, tok) =>
               (/\ storedToken' = tok /\ token' = tok /\ isAuthenticated'
                /\ defaultAuth' = Bearer(tok) /\ success' = "true")
     /\ (storedToken' # storedToken /\ Truthy(storedToken')) =>
          \E r \in inflight, tok \in Tokens : LoginOk(r, tok)]_vars

\* Of two logins submitted together one succeeded and the other then failed:
\* the session of the first stands.
C27_Witness ==
  /\ success = "false" /\ toast = <<ConnectToast>>
  /\ isAuthenticated /\ storedToken = "t2" /\ defaultAuth = Bearer("t2")

\* C28: a create form that passes validation and is submitted with no
\* credential stored sends nothing, is not reset or closed, starts no
\* dashboard fetch, and is not loading when the handler has returned.
C28_SubmitWithoutCredentialSendsNothing ==
  [][/\ (BudgetSubmit /\ BudgetValidate(budgetForm) = NoErrors /\ ~Truthy(storedToken)) =>
          (/\ Issued = {} /\ UNCHANGED <<netVars, dashVars, budgetForm>>
           /\ ~budgetLoading' /\ toast' = <<"Please login again">>)
     /\ \A now \in Nows :
          (GoalSubmit(now) /\ GoalValidate(goalForm, now) = NoErrors /\ ~Truthy(storedToken)) =>
            (/\ Issued = {} /\ UNCHANGED <<netVars, dashVars, goalForm>>
             /\ ~goalLoading' /\ toast' = <<"Please login again">>)]_vars

\* The budget form, filled in, after a submit that found no credential.
C28_Witness ==
  /\ BudgetShown /\ storedToken = NoToken
  /\ budgetForm.category = <<"f">> /\ budgetForm.amount = "10"
  /\ ~budgetLoading /\ toast = <<"Please login again">>

\* C29: an answered question leaves the answer as the advice and an empty
\* question; a failed one leaves the fallback that repeats the question
\* submitted and the question text as it was; neither leaves the form loading.
C29_AskLeavesAnswerOrFallback ==
  [][\A r \in {q \in inflight : q.live} :
       /\ \A d \in AdvicePayloads : AskQuestionOk(r, d) =>
            (advice' = d /\ question' = <<>> /\ ~loadingAsk')
       /\ \A e \in Errors : AskQuestionFail(r, e) =>
            (advice' = AdviceFallback(r.body) /\ question' = question /\ ~loadingAsk')]_vars

\* The fallback for the question "a" is shown and "a" is still in the field.
C29_Witness ==
  /\ advisorMounted /\ ~loadingAsk
  /\ question = <<"a">> /\ advice = AdviceFallback(<<"a">>)

\* C30: register, submitted, answered or failed, leaves the stored credential,
\* the token, the flag and the default header as they were; the flag is
\* raised only by a login that succeeded or by the start of a session from a
\* stored credential.
C30_RegisterLeavesSession ==
  [][/\ (\/ RegisterSubmit
         \/ \E r \in inflight : RegisterOk(r)
         \/ \E r \in inflight, e \in Errors : RegisterFail(r, e)) =>
          UNCHANGED <<storedToken, token, isAuthenticated, authLoading, defaultAuth>>
     /\ (~isAuthenticated /\ isAuthenticated') =>
          \/ \E r \in inflight, tok \in Tokens : LoginOk(r, tok)
          \/ AuthEffect /\ Truthy(storedToken)]_vars

\* A registration has succeeded and nobody is signed in.
C30_Witness ==
  /\ toast = <<"Registration successful! Please login.">> /\ success = "true"
  /\ ~isAuthenticated /\ storedToken = NoToken /\ defaultAuth = NoHeader

====
